---- MODULE Spec2Model ----
(***************************************************************************)
(* A model of kilors (src/src/main.rs): a full-screen terminal text viewer. *)
(* The state is the EditorState struct, the terminal mode the process has  *)
(* set, the frame last painted and the position of the process in run().   *)
(* All EditorState integers are u16: arithmetic is modelled with its       *)
(* width. An overflowing u16 operation panics in a build with overflow     *)
(* checks (the debug profile) and wraps modulo 2^16 in a build without     *)
(* them (the release profile); `build` is fixed when the process starts.   *)
(***************************************************************************)
EXTENDS Integers, Sequences, FiniteSets, TLC

VARIABLES
    pc,            \* position of the process: "run", "init", "load", "refresh", "read", "done"
    build,         \* "debug" (overflow panics) or "release" (overflow wraps)
    raw_mode,      \* terminal is in raw input mode
    alt_screen,    \* terminal shows the alternate screen
    term_cols,     \* terminal size most recently reported (size() or Event::Resize)
    term_rows,
    cursor_row, cursor_col, row_offset, col_offset, screen_rows, screen_cols,
    rows,          \* Vec<EditorRow>: sequence of [text_raw, text_render]
    frame,         \* what the last completed refresh_screen painted
    last_event,    \* the event last returned by read()
    ended_by,      \* why the process ended: "none", "quit", "error" (run() returned Err
                   \* and main printed it), "panic" (overflow, or main's println! failed)
    ended_in,      \* the step it ended in: "none", "setup", "init", "load", "refresh", "read", "event"
    cleanup_result,\* outcome of cleanup(): "none" (not called), "ok", "failed"
    exit_status,   \* exit status of the process once pc = "done"
    diagnostic,    \* "none", "error" (main's println of the Err), "panic" (panic message)
    pending        \* events the terminal still delivers to read(): a number, or
                   \* Endless when the stream of events never ends

vars == <<pc, build, raw_mode, alt_screen, term_cols, term_rows,
          cursor_row, cursor_col, row_offset, col_offset, screen_rows, screen_cols,
          rows, frame, last_event, ended_by, ended_in, cleanup_result,
          exit_status, diagnostic, pending>>

editor == <<cursor_row, cursor_col, row_offset, col_offset, screen_rows, screen_cols, rows>>
terminal == <<raw_mode, alt_screen>>
ending == <<ended_by, ended_in, cleanup_result, exit_status, diagnostic>>

----------------------------------------------------------------------------
(* Program constants and u16 arithmetic *)

TAB_STOP_LENGTH == 8

U16Mod == 65536

\* the value of `pending` for a stream of events that never ends
Endless == 0 - 1

TAB == "\t"
SPACE == " "

Min(a, b) == IF a < b THEN a ELSE b

\* `x as u16`: truncation of a usize to 16 bits
AsU16(x) == x % U16Mod

\* a u16 operation overflows when its mathematical result is not a u16
Overflows(x) == x < 0 \/ x >= U16Mod

----------------------------------------------------------------------------
(* Bounds of the model *)

\* rows of the generated documents
MaxRows == 2

\* length of the raw lines rendered on their own
MaxRawLen == 8

\* the small terminal dimension (small enough for the documents to scroll)
SmallDim == 2

\* terminal dimensions reported by size() and by Event::Resize: a small one and
\* the two largest a u16 holds
TermSizes == {SmallDim, U16Mod - 2, U16Mod - 1}

LineAbc == <<"a", "b", "c">>
LineTab == <<"t", "a", "b", TAB, "h", "e", "r", "e">>

\* the raw lines documents are made of
LinePool == {<< >>, LineTab}

RECURSIVE SeqsUpTo(_, _)
SeqsUpTo(S, n) ==
    IF n = 0 THEN {<< >>}
    ELSE LET shorter == SeqsUpTo(S, n - 1)
         IN  shorter \cup {Append(s, x) : s \in {t \in shorter : Len(t) = n - 1}, x \in S}

ScenarioDoc == <<LineAbc, << >>, LineTab>>

\* the files load_file may read, as sequences of lines
Docs == SeqsUpTo(LinePool, MaxRows) \cup {ScenarioDoc}

\* raw lines for the row renderer
RawLines == SeqsUpTo({"a", TAB}, MaxRawLen)

----------------------------------------------------------------------------
(* EditorRow *)

Spaces(n) == [i \in 1..n |-> SPACE]

\* the loop of EditorRow::update from character i on, with `index` and the
\* text_render built so far (index is a u16 that only grows by 1 per character:
\* it stays far below 2^16 on lines of at most MaxRawLen characters)
RECURSIVE UpdateFrom(_, _, _, _)
UpdateFrom(text_raw, i, index, text_render) ==
    IF i > Len(text_raw) THEN text_render
    ELSE IF text_raw[i] = TAB
         THEN LET index1 == index + 1
                  tab_width == TAB_STOP_LENGTH - (index1 % TAB_STOP_LENGTH)
              IN  UpdateFrom(text_raw, i + 1, index1,
                             Append(text_render, SPACE) \o Spaces(tab_width))
         ELSE UpdateFrom(text_raw, i + 1, index + 1, Append(text_render, text_raw[i]))

Update(text_raw) == UpdateFrom(text_raw, 1, 0, << >>)

EditorRowFrom(str) == [text_raw |-> str, text_render |-> Update(str)]

----------------------------------------------------------------------------
(* EditorState::move_cursor *)

Directions == {"Left", "Right", "Up", "Down"}

\* self.rows.get(r).map_or(0, |row| row.text_render.len())
RenderedLength(rs, r) == IF r < Len(rs) THEN Len(rs[r + 1].text_render) ELSE 0

\* Each arm of the match on direction gives the cursor before the clamp, and
\* whether a u16 operation overflowed on the way.
MoveLeft(crow, ccol, rs) ==
    IF ccol # 0 THEN [row |-> crow, col |-> ccol - 1, overflow |-> FALSE]
    ELSE IF crow > 0
         THEN [row |-> crow - 1,
               col |-> AsU16(Len(rs[crow].text_render)),
               overflow |-> FALSE]
         ELSE [row |-> crow, col |-> ccol, overflow |-> FALSE]

\* a plausible variant of MoveRight: the row advances only onto a real row
MoveRightBlocked(crow, ccol, rs) ==
    IF crow < Len(rs)
    THEN IF ccol < Len(rs[crow + 1].text_render)
         THEN [row |-> crow, col |-> AsU16(ccol + 1), overflow |-> Overflows(ccol + 1)]
         ELSE IF ccol = Len(rs[crow + 1].text_render) /\ crow + 1 < Len(rs)
              THEN [row |-> AsU16(crow + 1), col |-> 0, overflow |-> Overflows(crow + 1)]
              ELSE [row |-> crow, col |-> ccol, overflow |-> FALSE]
    ELSE [row |-> crow, col |-> ccol, overflow |-> FALSE]

MoveRight(crow, ccol, rs) ==
    IF crow < Len(rs)
    THEN IF ccol < Len(rs[crow + 1].text_render)
         THEN [row |-> crow, col |-> AsU16(ccol + 1), overflow |-> Overflows(ccol + 1)]
         ELSE IF ccol = Len(rs[crow + 1].text_render)
              THEN [row |-> AsU16(crow + 1), col |-> 0, overflow |-> Overflows(crow + 1)]
              ELSE [row |-> crow, col |-> ccol, overflow |-> FALSE]
    ELSE [row |-> crow, col |-> ccol, overflow |-> FALSE]

MoveUp(crow, ccol, rs) ==
    IF crow # 0 THEN [row |-> crow - 1, col |-> ccol, overflow |-> FALSE]
    ELSE [row |-> crow, col |-> ccol, overflow |-> FALSE]

\* a plausible variant of MoveDown: the bound on the row is off by one
MoveDownPastEnd(crow, ccol, rs) ==
    IF crow <= Len(rs)
    THEN [row |-> AsU16(crow + 1), col |-> ccol, overflow |-> Overflows(crow + 1)]
    ELSE [row |-> crow, col |-> ccol, overflow |-> FALSE]

MoveDown(crow, ccol, rs) ==
    IF crow < Len(rs)
    THEN [row |-> AsU16(crow + 1), col |-> ccol, overflow |-> Overflows(crow + 1)]
    ELSE [row |-> crow, col |-> ccol, overflow |-> FALSE]

MoveMatch(direction, crow, ccol, rs) ==
    CASE direction = "Left" -> MoveLeft(crow, ccol, rs)
      [] direction = "Right" -> MoveRight(crow, ccol, rs)
      [] direction = "Up" -> MoveUp(crow, ccol, rs)
      [] direction = "Down" -> MoveDown(crow, ccol, rs)

\* a plausible variant of ClampCol: the clamp is missing
ClampColMissing(crow, ccol, rs) == ccol

\* the clamp that ends move_cursor
ClampCol(crow, ccol, rs) ==
    LET row_length == AsU16(RenderedLength(rs, crow))
    IN  IF ccol > row_length THEN row_length ELSE ccol

MoveCursor(direction, crow, ccol, rs) ==
    LET m == MoveMatch(direction, crow, ccol, rs)
    IN  [cursor_row |-> m.row,
         cursor_col |-> ClampCol(m.row, m.col, rs),
         overflow |-> m.overflow]

----------------------------------------------------------------------------
(* EditorState::scroll, draw_rows, refresh_screen *)

\* a plausible variant of ScrollAxis: a cursor past the window scrolls it by one
ScrollAxisByOne(cursor, offset, screen) ==
    LET snapped == IF cursor < offset THEN cursor ELSE offset
        window_end == snapped + screen
    IN  IF cursor >= AsU16(window_end)
        THEN [offset |-> AsU16(snapped + 1), snapped |-> snapped,
              overflow |-> Overflows(window_end) \/ Overflows(snapped + 1)]
        ELSE [offset |-> snapped, snapped |-> snapped, overflow |-> Overflows(window_end)]

\* the two ifs of scroll on one axis: the new offset, the offset the first if
\* has stored when the condition of the second is evaluated, and whether a u16
\* operation overflowed
ScrollAxis(cursor, offset, screen) ==
    LET snapped == IF cursor < offset THEN cursor ELSE offset
        window_end == snapped + screen
        past == cursor >= AsU16(window_end)
        diff == cursor - screen
    IN  IF past
        THEN [offset |-> AsU16(AsU16(diff) + 1), snapped |-> snapped,
              overflow |-> Overflows(window_end) \/ Overflows(diff) \/ Overflows(AsU16(diff) + 1)]
        ELSE [offset |-> snapped, snapped |-> snapped, overflow |-> Overflows(window_end)]

\* row_text of draw_rows for one screen row, as a sequence of characters
RowText(row_num, roff, coff, scols, rs) ==
    LET file_row == AsU16(row_num + roff)
    IN  IF file_row >= Len(rs) THEN <<"~">>
        ELSE LET text_render == rs[file_row + 1].text_render
             IN  IF Len(text_render) > coff
                 THEN LET len == Min(Len(text_render) - coff, scols)
                      IN  SubSeq(text_render, coff + 1, coff + len)
                 ELSE << >>

\* the screen rows that show a document row; every other screen row shows "~"
TextRows(roff, srows, rs) ==
    {row_num \in {AsU16(f - roff) : f \in 0..(Len(rs) - 1)} : row_num < srows}

\* row_num + self.row_offset overflows on the last screen rows
DrawOverflows(roff, srows) == srows >= 1 /\ Overflows((srows - 1) + roff)

NoFrame == [drawn |-> FALSE, nrows |-> 0, text |-> << >>, cx |-> 0, cy |-> 0]

\* one pass of refresh_screen: the offsets scroll leaves, the frame painted
\* (nrows lines: text[r] on the rows of TextRows, "~" elsewhere; the terminal
\* cursor at cell (cx, cy)), the offsets scroll has stored when the first
\* overflowing operation of the pass is reached (scroll stores the row offset
\* before it looks at the columns, and both before draw_rows and MoveTo),
\* whether a u16 operation of scroll overflowed and whether any u16 operation
\* of the pass did
Refresh(crow, ccol, roff, coff, srows, scols, rs) ==
    LET r == ScrollAxis(crow, roff, srows)
        c == ScrollAxis(ccol, coff, scols)
    IN  [row_offset |-> r.offset,
         col_offset |-> c.offset,
         frame |-> [drawn |-> TRUE,
                    nrows |-> srows,
                    text |-> [row_num \in TextRows(r.offset, srows, rs) |->
                                 RowText(row_num, r.offset, c.offset, scols, rs)],
                    cx |-> AsU16(ccol - c.offset),
                    cy |-> AsU16(crow - r.offset)],
         panic_row_offset |-> IF r.overflow THEN r.snapped ELSE r.offset,
         panic_col_offset |-> IF r.overflow THEN coff
                              ELSE IF c.overflow THEN c.snapped ELSE c.offset,
         scroll_overflow |-> r.overflow \/ c.overflow,
         overflow |-> r.overflow \/ c.overflow \/ DrawOverflows(r.offset, srows)
                      \/ Overflows(ccol - c.offset) \/ Overflows(crow - r.offset)]

----------------------------------------------------------------------------
(* The process: main, run, setup, cleanup, event_loop *)

Init ==
    /\ pc = "run"
    /\ build \in {"debug", "release"}
    /\ raw_mode = FALSE
    /\ alt_screen = FALSE
    /\ term_cols = 0
    /\ term_rows = 0
    /\ cursor_row = 0
    /\ cursor_col = 0
    /\ row_offset = 0
    /\ col_offset = 0
    /\ screen_rows = 0
    /\ screen_cols = 0
    /\ rows = << >>
    /\ frame = NoFrame
    /\ last_event = "None"
    /\ ended_by = "none"
    /\ ended_in = "none"
    /\ cleanup_result = "none"
    /\ exit_status = 0
    /\ diagnostic = "none"
    /\ pending = Endless

\* run() returns Err from step `where`: main prints it with println! and
\* returns (exit status 0), or, when that write to stdout fails too (stdout is
\* the device that failed, or a pipe whose reader has gone), println! panics
ReturnErr(where) ==
    /\ pc' = "done"
    /\ ended_in' = where
    /\ cleanup_result' = cleanup_result
    /\ \/ /\ ended_by' = "error"
          /\ exit_status' = 0
          /\ diagnostic' = "error"
       \/ /\ ended_by' = "panic"
          /\ exit_status' = 101
          /\ diagnostic' = "panic"

\* an arithmetic overflow panics (overflow checks on): the process ends with
\* the panic message and exit status 101
Panic(where) ==
    /\ pc' = "done"
    /\ ended_by' = "panic"
    /\ ended_in' = where
    /\ cleanup_result' = cleanup_result
    /\ exit_status' = 101
    /\ diagnostic' = "panic"

\* read() returns the next event of the stream
TakeEvent ==
    /\ pending # 0
    /\ pending' = IF pending = Endless THEN Endless ELSE pending - 1

Setup ==
    /\ pc = "run"
    /\ alt_screen' = TRUE
    /\ raw_mode' = TRUE
    /\ pc' = "init"
    /\ UNCHANGED <<build, pending, term_cols, term_rows, editor, frame, last_event, ending>>

\* EnterAlternateScreen or enable_raw_mode fails
SetupFail ==
    /\ pc = "run"
    /\ \E entered \in BOOLEAN : alt_screen' = entered
    /\ raw_mode' = FALSE
    /\ ReturnErr("setup")
    /\ UNCHANGED <<build, pending, term_cols, term_rows, editor, frame, last_event>>

EditorInit ==
    /\ pc = "init"
    /\ \E columns \in TermSizes, rws \in TermSizes :
          /\ term_cols' = columns
          /\ term_rows' = rws
          /\ screen_cols' = columns
          /\ screen_rows' = rws
    /\ cursor_row' = 0
    /\ cursor_col' = 0
    /\ row_offset' = 0
    /\ col_offset' = 0
    /\ rows' = << >>
    /\ pc' = "load"
    /\ UNCHANGED <<build, pending, terminal, frame, last_event, ending>>

\* size() fails
EditorInitFail ==
    /\ pc = "init"
    /\ ReturnErr("init")
    /\ UNCHANGED <<build, pending, terminal, term_cols, term_rows, editor, frame, last_event>>

LoadFile ==
    /\ pc = "load"
    /\ \E doc \in Docs : rows' = [i \in 1..Len(doc) |-> EditorRowFrom(doc[i])]
    /\ pc' = "refresh"
    /\ UNCHANGED <<build, pending, terminal, term_cols, term_rows, cursor_row, cursor_col,
                   row_offset, col_offset, screen_rows, screen_cols, frame, last_event, ending>>

\* File::open fails (read = 0) or a line cannot be read after `read` lines
LoadFileFail ==
    /\ pc = "load"
    /\ \E doc \in Docs : \E read \in 0..Len(doc) :
          rows' = [i \in 1..read |-> EditorRowFrom(doc[i])]
    /\ ReturnErr("load")
    /\ UNCHANGED <<build, pending, terminal, term_cols, term_rows, cursor_row, cursor_col,
                   row_offset, col_offset, screen_rows, screen_cols, frame, last_event>>

RefreshScreen ==
    /\ pc = "refresh"
    /\ LET f == Refresh(cursor_row, cursor_col, row_offset, col_offset,
                        screen_rows, screen_cols, rows)
       IN  /\ ~(build = "debug" /\ f.overflow)
           /\ row_offset' = f.row_offset
           /\ col_offset' = f.col_offset
           /\ frame' = f.frame
    /\ pc' = "read"
    /\ UNCHANGED <<build, pending, terminal, term_cols, term_rows, cursor_row, cursor_col,
                   screen_rows, screen_cols, rows, last_event, ending>>

\* a u16 operation of scroll, draw_rows or the MoveTo arguments overflows; the
\* offsets scroll stored before it stay stored
RefreshScreenPanic ==
    /\ pc = "refresh"
    /\ build = "debug"
    /\ LET f == Refresh(cursor_row, cursor_col, row_offset, col_offset,
                        screen_rows, screen_cols, rows)
       IN  /\ f.overflow
           /\ row_offset' = f.panic_row_offset
           /\ col_offset' = f.panic_col_offset
    /\ Panic("refresh")
    /\ frame' = NoFrame
    /\ UNCHANGED <<build, pending, terminal, term_cols, term_rows, cursor_row, cursor_col,
                   screen_rows, screen_cols, rows, last_event>>

\* an execute!, write or flush of the frame fails, after scroll has run
RefreshScreenFail ==
    /\ pc = "refresh"
    /\ LET f == Refresh(cursor_row, cursor_col, row_offset, col_offset,
                        screen_rows, screen_cols, rows)
       IN  /\ ~(build = "debug" /\ f.scroll_overflow)
           /\ row_offset' = f.row_offset
           /\ col_offset' = f.col_offset
    /\ frame' = NoFrame
    /\ ReturnErr("refresh")
    /\ UNCHANGED <<build, pending, terminal, term_cols, term_rows, cursor_row, cursor_col,
                   screen_rows, screen_cols, rows, last_event>>

\* read() fails
ReadFail ==
    /\ pc = "read"
    /\ ReturnErr("read")
    /\ UNCHANGED <<build, pending, terminal, term_cols, term_rows, editor, frame, last_event>>

EventResize ==
    /\ pc = "read"
    /\ TakeEvent
    /\ \E columns \in TermSizes, rws \in TermSizes :
          /\ ~(build = "debug" /\ (Overflows(columns + 1) \/ Overflows(rws + 1)))
          /\ term_cols' = columns
          /\ term_rows' = rws
          /\ screen_cols' = AsU16(columns + 1)
          /\ screen_rows' = AsU16(rws + 1)
    /\ last_event' = "Resize"
    /\ pc' = "refresh"
    /\ UNCHANGED <<build, terminal, cursor_row, cursor_col, row_offset, col_offset,
                   rows, frame, ending>>

\* columns + 1 or rows + 1 overflows; screen_cols is assigned before rows + 1
\* is computed
EventResizePanic ==
    /\ pc = "read"
    /\ TakeEvent
    /\ build = "debug"
    /\ \E columns \in TermSizes, rws \in TermSizes :
          /\ Overflows(columns + 1) \/ Overflows(rws + 1)
          /\ term_cols' = columns
          /\ term_rows' = rws
          /\ screen_cols' = IF Overflows(columns + 1) THEN screen_cols ELSE columns + 1
    /\ last_event' = "Resize"
    /\ Panic("event")
    /\ UNCHANGED <<build, terminal, cursor_row, cursor_col, row_offset, col_offset,
                   screen_rows, rows, frame>>

\* Event::Key with an arrow: handle_keypress calls move_cursor
EventArrow ==
    /\ pc = "read"
    /\ TakeEvent
    /\ \E direction \in Directions :
          LET m == MoveCursor(direction, cursor_row, cursor_col, rows)
          IN  /\ last_event' = direction
              /\ IF build = "debug" /\ m.overflow
                 THEN /\ Panic("event")
                      /\ UNCHANGED <<cursor_row, cursor_col>>
                 ELSE /\ cursor_row' = m.cursor_row
                      /\ cursor_col' = m.cursor_col
                      /\ pc' = "refresh"
                      /\ UNCHANGED ending
    /\ UNCHANGED <<build, terminal, term_cols, term_rows, row_offset, col_offset,
                   screen_rows, screen_cols, rows, frame>>

\* cleanup(): disable_raw_mode()?, then LeaveAlternateScreen
Cleanup(outcome) ==
    /\ raw_mode' = IF outcome = "raw_failed" THEN raw_mode ELSE FALSE
    /\ alt_screen' = IF outcome = "ok" THEN FALSE ELSE alt_screen
    /\ cleanup_result' = IF outcome = "ok" THEN "ok" ELSE "failed"

\* Event::Key with Esc: cleanup(); exit(0)
EventEsc ==
    /\ pc = "read"
    /\ TakeEvent
    /\ last_event' = "Esc"
    /\ \E outcome \in {"ok", "raw_failed", "leave_failed"} : Cleanup(outcome)
    /\ pc' = "done"
    /\ ended_by' = "quit"
    /\ ended_in' = "event"
    /\ exit_status' = 0
    /\ diagnostic' = "none"
    /\ UNCHANGED <<build, term_cols, term_rows, editor, frame>>

\* a plausible variant of EventOtherKey: some other key sends the cursor to the
\* start of its row
EventOtherKeyHome ==
    /\ pc = "read"
    /\ TakeEvent
    /\ last_event' = "OtherKey"
    /\ cursor_col' = 0
    /\ pc' = "refresh"
    /\ UNCHANGED <<build, terminal, term_cols, term_rows, cursor_row, row_offset,
                   col_offset, screen_rows, screen_cols, rows, frame, ending>>

\* Event::Key with any other key code
EventOtherKey ==
    /\ pc = "read"
    /\ TakeEvent
    /\ last_event' = "OtherKey"
    /\ pc' = "refresh"
    /\ UNCHANGED <<build, terminal, term_cols, term_rows, editor, frame, ending>>

\* a plausible variant of EventMouse: the next event is read without a repaint
EventMouseNoRepaint ==
    /\ pc = "read"
    /\ TakeEvent
    /\ last_event' = "Mouse"
    /\ pc' = "read"
    /\ UNCHANGED <<build, terminal, term_cols, term_rows, editor, frame, ending>>

EventMouse ==
    /\ pc = "read"
    /\ TakeEvent
    /\ last_event' = "Mouse"
    /\ pc' = "refresh"
    /\ UNCHANGED <<build, terminal, term_cols, term_rows, editor, frame, ending>>

Next ==
    \/ Setup
    \/ SetupFail
    \/ EditorInit
    \/ EditorInitFail
    \/ LoadFile
    \/ LoadFileFail
    \/ RefreshScreen
    \/ RefreshScreenPanic
    \/ RefreshScreenFail
    \/ ReadFail
    \/ EventResize
    \/ EventResizePanic
    \/ EventArrow
    \/ EventEsc
    \/ EventOtherKey
    \/ EventMouse

Spec == Init /\ [][Next]_vars

----------------------------------------------------------------------------
(* The row renderer on its own: EditorRow::from on every raw line of RawLines *)

\* EditorRow::from has built the struct and not yet called update
InitRender ==
    /\ pc = "from"
    /\ build \in {"debug", "release"}
    /\ raw_mode = FALSE
    /\ alt_screen = FALSE
    /\ term_cols = 0
    /\ term_rows = 0
    /\ cursor_row = 0
    /\ cursor_col = 0
    /\ row_offset = 0
    /\ col_offset = 0
    /\ screen_rows = 0
    /\ screen_cols = 0
    /\ \E str \in RawLines : rows = <<[text_raw |-> str, text_render |-> << >>]>>
    /\ frame = NoFrame
    /\ last_event = "None"
    /\ ended_by = "none"
    /\ ended_in = "none"
    /\ cleanup_result = "none"
    /\ exit_status = 0
    /\ diagnostic = "none"
    /\ pending = Endless

RowUpdate ==
    /\ pc = "from"
    /\ rows' = <<EditorRowFrom(rows[1].text_raw)>>
    /\ pc' = "row"
    /\ UNCHANGED <<build, pending, terminal, term_cols, term_rows, cursor_row, cursor_col,
                   row_offset, col_offset, screen_rows, screen_cols, frame, last_event, ending>>

NextRender == RowUpdate

SpecRender == InitRender /\ [][NextRender]_vars

----------------------------------------------------------------------------
(* The event loop on the scenario document: load_file has read ScenarioDoc on
   a terminal of 5 rows and 10 columns, and the events are keys *)

InitScenario ==
    /\ pc = "refresh"
    /\ build \in {"debug", "release"}
    /\ raw_mode = TRUE
    /\ alt_screen = TRUE
    /\ term_cols = 10
    /\ term_rows = 5
    /\ cursor_row = 0
    /\ cursor_col = 0
    /\ row_offset = 0
    /\ col_offset = 0
    /\ screen_rows = 5
    /\ screen_cols = 10
    /\ rows = [i \in 1..Len(ScenarioDoc) |-> EditorRowFrom(ScenarioDoc[i])]
    /\ frame = NoFrame
    /\ last_event = "None"
    /\ ended_by = "none"
    /\ ended_in = "none"
    /\ cleanup_result = "none"
    /\ exit_status = 0
    /\ diagnostic = "none"
    /\ pending = Endless

NextScenario ==
    \/ RefreshScreen
    \/ RefreshScreenFail
    \/ ReadFail
    \/ EventArrow
    \/ EventEsc
    \/ EventOtherKey
    \/ EventMouse

SpecScenario == InitScenario /\ [][NextScenario]_vars

----------------------------------------------------------------------------
(* The program from load_file on, on a small terminal, reading a document of
   LongDocs: a first line of 2^16 - 1 characters (the longest whose columns a
   u16 holds) or of 2^16 + 1 (one whose length a u16 truncates). The terminal
   delivers MaxEvents events and then none: the process waits in read(). *)

\* events the terminal delivers in a session on a long document
MaxEvents == 4

\* a line of n ordinary characters
LongLine(n) == [i \in 1..n |-> "a"]

\* a row of a line without tabs: update pushes every character as it is
PlainRow(str) == [text_raw |-> str, text_render |-> str]

\* update's `index += 1` runs once per character of the line: it overflows on
\* the 2^16-th character
UpdateOverflows(str) == Len(str) >= U16Mod

\* documents whose first line has 2^16 - 1 and 2^16 + 1 characters
LongDocs == {<<LongLine(U16Mod - 1), LineAbc>>, <<LongLine(U16Mod + 1), LineAbc>>}

\* the lines of doc read before the first one on which update overflows
LoadedBeforeOverflow(doc) ==
    CHOOSE n \in 0..Len(doc) :
        /\ \A i \in 1..n : ~UpdateOverflows(doc[i])
        /\ n < Len(doc) => UpdateOverflows(doc[n + 1])

\* EditorState::init has returned on a terminal of SmallDim x SmallDim
InitLong ==
    /\ pc = "load"
    /\ build \in {"debug", "release"}
    /\ raw_mode = TRUE
    /\ alt_screen = TRUE
    /\ term_cols = SmallDim
    /\ term_rows = SmallDim
    /\ cursor_row = 0
    /\ cursor_col = 0
    /\ row_offset = 0
    /\ col_offset = 0
    /\ screen_rows = SmallDim
    /\ screen_cols = SmallDim
    /\ rows = << >>
    /\ frame = NoFrame
    /\ last_event = "None"
    /\ ended_by = "none"
    /\ ended_in = "none"
    /\ cleanup_result = "none"
    /\ exit_status = 0
    /\ diagnostic = "none"
    /\ pending = MaxEvents

\* load_file reads a document of LongDocs to its end
LoadLongFile ==
    /\ pc = "load"
    /\ \E doc \in LongDocs :
          /\ ~(build = "debug" /\ LoadedBeforeOverflow(doc) < Len(doc))
          /\ rows' = [i \in 1..Len(doc) |-> PlainRow(doc[i])]
    /\ pc' = "refresh"
    /\ UNCHANGED <<build, pending, terminal, term_cols, term_rows, cursor_row, cursor_col,
                   row_offset, col_offset, screen_rows, screen_cols, frame, last_event, ending>>

\* EditorRow::update overflows its index on a line of 2^16 characters or more:
\* the rows pushed before that line stay in the state
LoadLongFilePanic ==
    /\ pc = "load"
    /\ build = "debug"
    /\ \E doc \in LongDocs :
          /\ LoadedBeforeOverflow(doc) < Len(doc)
          /\ rows' = [i \in 1..LoadedBeforeOverflow(doc) |-> PlainRow(doc[i])]
    /\ Panic("load")
    /\ UNCHANGED <<build, pending, terminal, term_cols, term_rows, cursor_row, cursor_col,
                   row_offset, col_offset, screen_rows, screen_cols, frame, last_event>>

\* File::open fails (read = 0) or a line cannot be read after `read` lines
LoadLongFileFail ==
    /\ pc = "load"
    /\ \E doc \in LongDocs : \E read \in 0..Len(doc) :
          /\ ~(build = "debug" /\ LoadedBeforeOverflow(doc) < read)
          /\ rows' = [i \in 1..read |-> PlainRow(doc[i])]
    /\ ReturnErr("load")
    /\ UNCHANGED <<build, pending, terminal, term_cols, term_rows, cursor_row, cursor_col,
                   row_offset, col_offset, screen_rows, screen_cols, frame, last_event>>

NextLong ==
    \/ LoadLongFile
    \/ LoadLongFilePanic
    \/ LoadLongFileFail
    \/ RefreshScreen
    \/ RefreshScreenPanic
    \/ RefreshScreenFail
    \/ ReadFail
    \/ EventResize
    \/ EventResizePanic
    \/ EventArrow
    \/ EventEsc
    \/ EventOtherKey
    \/ EventMouse

SpecLong == InitLong /\ [][NextLong]_vars

----------------------------------------------------------------------------
(* Definitions the properties use *)

\* a reference tab expander: a tab pads with spaces to the next multiple of
\* TAB_STOP_LENGTH strictly greater than the column it starts at
RECURSIVE RefExpandFrom(_, _, _)
RefExpandFrom(text_raw, i, out) ==
    IF i > Len(text_raw) THEN out
    ELSE IF text_raw[i] = TAB
         THEN RefExpandFrom(text_raw, i + 1,
                            out \o Spaces(TAB_STOP_LENGTH - (Len(out) % TAB_STOP_LENGTH)))
         ELSE RefExpandFrom(text_raw, i + 1, Append(out, text_raw[i]))

RefExpand(text_raw) == RefExpandFrom(text_raw, 1, << >>)

\* the cursor the last frame was painted for, while the offsets are those of
\* that frame (between refresh_screen and the next one)
ShownRow == AsU16(frame.cy + row_offset)
ShownCol == AsU16(frame.cx + col_offset)

\* the event loop has just handled an event and not yet repainted
Handled(event) == pc = "refresh" /\ last_event = event /\ frame.drawn

\* the cursor is at the end of the last real row
AtLastRowEnd ==
    /\ Len(rows) > 0
    /\ cursor_row = Len(rows) - 1
    /\ cursor_col = RenderedLength(rows, cursor_row)

\* this step is the event loop handling a Right key to completion
RightStep == pc = "read" /\ pc' = "refresh" /\ last_event' = "Right"

\* this step is the event loop handling the key or event `event` to completion
EventStep(event) == pc = "read" /\ pc' = "refresh" /\ last_event' = event

\* the cursor is at (r, c)
CursorAt(r, c) == cursor_row = r /\ cursor_col = c

\* the step leaves the cursor at (r, c)
CursorTo(r, c) == cursor_row' = r /\ cursor_col' = c

\* this step is a completed refresh_screen pass
FrameStep == pc = "refresh" /\ pc' = "read"

\* what C15 says of scroll on one axis, from offset to offset_after
SnapsToEdge(cursor, offset, screen, offset_after) ==
    /\ (offset <= cursor /\ cursor < offset + screen) => offset_after = offset
    /\ cursor < offset => offset_after = cursor
    /\ cursor >= offset + screen => offset_after = cursor - screen + 1
    /\ offset_after >= 0

\* the text of screen row r in the frame last painted
FrameLine(r) == IF r \in DOMAIN frame.text THEN frame.text[r] ELSE <<"~">>

\* what C16 says screen row r shows, with file_row = r + row_offset
ClaimedLine(r) ==
    LET file_row == r + row_offset
    IN  IF file_row >= Len(rows) THEN <<"~">>
        ELSE IF RenderedLength(rows, file_row) <= col_offset THEN << >>
             ELSE SubSeq(rows[file_row + 1].text_render, col_offset + 1,
                         Min(RenderedLength(rows, file_row), col_offset + screen_cols))

\* the screen rows on which the frame or C16 has something other than the
\* filler: on every other screen row both are "~"
UnfilledRows ==
    DOMAIN frame.text \cup {r \in 0..(Len(rows) - 1) : r < screen_rows}

\* this step is the event loop taking an event from read() and handling it
\* (every step from "read" but the failure of read() itself)
HandlesEvent == pc = "read" /\ ended_in' # "read"

\* the frame on the terminal is a complete paint of the current state, with
\* the offsets scroll leaves for it
FrameUpToDate ==
    LET f == Refresh(cursor_row, cursor_col, row_offset, col_offset,
                     screen_rows, screen_cols, rows)
    IN  /\ frame.drawn
        /\ frame = f.frame
        /\ row_offset = f.row_offset
        /\ col_offset = f.col_offset

\* no resize event has been handled: the screen dimensions are those size()
\* reported (a handled resize leaves them one above the reported ones)
NeverResized == screen_rows = term_rows /\ screen_cols = term_cols

----------------------------------------------------------------------------
(* Properties *)

\* C1 (cursor clamp invariant): in every state, whatever moves were made from
\* (0,0), 0 <= cursor_row <= number of rows and 0 <= cursor_col <= rendered
\* length of the cursor's row (0 on the virtual row past the end).
C1_CursorClamp ==
    /\ cursor_row \in 0..Len(rows)
    /\ cursor_col \in 0..RenderedLength(rows, cursor_row)

\* C1 witness: an Up move from a column beyond the new row's length was clamped.
C1_Witness ==
    /\ Handled("Up")
    /\ cursor_row = ShownRow - 1
    /\ ShownCol > RenderedLength(rows, cursor_row)
    /\ cursor_col = RenderedLength(rows, cursor_row)

\* C2 (scroll invariant, as claimed): right after a frame whose scroll ran with
\* screen_rows >= 1 and screen_cols >= 1, row_offset <= cursor_row <
\* row_offset + screen_rows and col_offset <= cursor_col < col_offset + screen_cols.
C2_ScrollInvariant ==
    (pc = "read" /\ screen_rows >= 1 /\ screen_cols >= 1) =>
        /\ row_offset <= cursor_row
        /\ cursor_row < row_offset + screen_rows
        /\ col_offset <= cursor_col
        /\ cursor_col < col_offset + screen_cols

\* C3 (as claimed): Right at the end of the last real row leaves the cursor
\* unchanged.
C3_RightAtEndNoOp ==
    [][(RightStep /\ AtLastRowEnd) =>
          (cursor_row' = cursor_row /\ cursor_col' = cursor_col)]_vars

\* C3 (amended): Right at the end of the last real row moves the cursor to
\* column 0 of the virtual row past the end, (number of rows, 0).
C3_RightAtEndToVirtualRow ==
    [][(RightStep /\ AtLastRowEnd) =>
          (cursor_row' = Len(rows) /\ cursor_col' = 0)]_vars

\* C3 witness: a Right key was handled with the painted cursor at the end of
\* the last real row, and the cursor is now on the virtual row.
C3_Witness ==
    /\ Handled("Right")
    /\ Len(rows) > 0
    /\ ShownRow = Len(rows) - 1
    /\ ShownCol = RenderedLength(rows, ShownRow)
    /\ cursor_row = Len(rows)
    /\ cursor_col = 0

\* C4 (tab stops, as claimed): the rendered text of every raw line is what the
\* reference tab expander gives: every tab pads with 1..TAB_STOP_LENGTH spaces
\* to the next multiple of TAB_STOP_LENGTH.
C4_TabStops ==
    pc = "row" => rows[1].text_render = RefExpand(rows[1].text_raw)

\* C5 (as claimed): once a resize notification (columns, rows) is handled,
\* screen_cols = columns and screen_rows = rows.
C5_ResizeDirect ==
    (pc = "refresh" /\ last_event = "Resize") =>
        (screen_cols = term_cols /\ screen_rows = term_rows)

\* C6 (as claimed): at the end of every frame the terminal cursor is at cell
\* (cursor_col - col_offset, cursor_row - row_offset), inside the terminal size
\* most recently reported.
C6_CursorOnScreen ==
    pc = "read" =>
        /\ frame.cx = cursor_col - col_offset
        /\ frame.cy = cursor_row - row_offset
        /\ 0 <= cursor_col - col_offset /\ cursor_col - col_offset < term_cols
        /\ 0 <= cursor_row - row_offset /\ cursor_row - row_offset < term_rows

\* C7 (as claimed): when loading fails, no frame was painted, no event was read
\* and the terminal is restored when the process ends.
C7_LoadErrorRestores ==
    (pc = "done" /\ ended_in = "load") =>
        /\ ~frame.drawn
        /\ last_event = "None"
        /\ ~raw_mode
        /\ ~alt_screen

\* C8 (as claimed): when a terminal or input operation of the event loop fails,
\* the process ends with cleanup run, the terminal restored, a diagnostic
\* printed and a non-zero exit status.
C8_TerminalIoError ==
    (pc = "done" /\ (ended_in = "read" \/ (ended_in = "refresh" /\ ended_by = "error"))) =>
        /\ diagnostic = "error"
        /\ cleanup_result # "none"
        /\ ~raw_mode
        /\ ~alt_screen
        /\ exit_status # 0

\* C9 (as claimed): once Esc is read the process has ended through cleanup (the
\* terminal restored when its teardown operations succeed), and a process that
\* ended while handling an event was handling Esc.
C9_QuitOnlyByEsc ==
    /\ last_event = "Esc" =>
          /\ pc = "done"
          /\ ended_by = "quit"
          /\ cleanup_result # "none"
          /\ cleanup_result = "ok" => (~raw_mode /\ ~alt_screen)
    /\ (pc = "done" /\ ended_in = "event") => last_event = "Esc"

\* C10 (frame pass idempotence): right after a frame, a second pass of
\* refresh_screen on the same state completes and leaves the same row_offset and
\* col_offset, paints the same text on every screen row and puts the terminal
\* cursor on the same cell.
C10_FrameIdempotent ==
    pc = "read" =>
        LET again == Refresh(cursor_row, cursor_col, row_offset, col_offset,
                             screen_rows, screen_cols, rows)
        IN  /\ again.row_offset = row_offset
            /\ again.col_offset = col_offset
            /\ again.frame = frame
            /\ ~(build = "debug" /\ again.overflow)

\* C10 witness: a frame was painted with the window scrolled on both axes and
\* a document row on screen.
C10_Witness ==
    /\ pc = "read"
    /\ row_offset > 0
    /\ col_offset > 0
    /\ DOMAIN frame.text # {}

\* C11 (scenario trace): on the document ["abc", "", "tab<TAB>here"] with a
\* screen of 5 rows and 10 columns, the row "tab<TAB>here" renders to length 12,
\* and from cursor (0,0): Down gives (1,0); Down gives (2,0); each of 7 Right
\* presses stays on row 2 and advances the column by one, to (2,7), within the
\* rendered length 12; then Up gives row 1 with the column clamped to 0.
C11_ScenarioTrace ==
    /\ [](RenderedLength(rows, 2) = 12)
    /\ [][/\ (EventStep("Down") /\ CursorAt(0, 0)) => CursorAt(1, 0)'
          /\ (EventStep("Down") /\ CursorAt(1, 0)) => CursorAt(2, 0)'
          /\ \A c \in 0..6 :
                (EventStep("Right") /\ CursorAt(2, c)) =>
                    (CursorAt(2, c + 1)' /\ cursor_col' <= RenderedLength(rows, 2))
          /\ (EventStep("Up") /\ CursorAt(2, 7)) => CursorAt(1, 0)']_vars

\* C11 witness: the last step of the scenario: Up was handled with the painted
\* cursor at (2,7), and the cursor is now at (1,0).
C11_Witness ==
    /\ Handled("Up")
    /\ ShownRow = 2
    /\ ShownCol = 7
    /\ CursorAt(1, 0)
    /\ screen_rows = 5
    /\ screen_cols = 10

\* C12 (as claimed): a completed Right with cursor_col below the rendered length
\* of the cursor's row adds 1 to cursor_col and keeps cursor_row; at the end of
\* a real row that has a next real row it moves to (cursor_row + 1, 0); on the
\* virtual row past the end it changes nothing.
C12_RightWithinDocument ==
    [][EventStep("Right") =>
          /\ cursor_col < RenderedLength(rows, cursor_row) =>
                CursorTo(cursor_row, cursor_col + 1)
          /\ (cursor_row + 1 < Len(rows) /\ cursor_col = RenderedLength(rows, cursor_row)) =>
                CursorTo(cursor_row + 1, 0)
          /\ cursor_row = Len(rows) => CursorTo(cursor_row, cursor_col)]_vars

\* C13 (as claimed): a completed Left with cursor_col > 0 subtracts 1 from
\* cursor_col and keeps cursor_row; at column 0 of a row > 0 (the virtual row
\* included) it moves to (cursor_row - 1, rendered length of that row); at
\* (0,0) it changes nothing.
C13_Left ==
    [][EventStep("Left") =>
          /\ cursor_col > 0 => CursorTo(cursor_row, cursor_col - 1)
          /\ (cursor_col = 0 /\ cursor_row > 0) =>
                CursorTo(cursor_row - 1, RenderedLength(rows, cursor_row - 1))
          /\ CursorAt(0, 0) => CursorTo(0, 0)]_vars

\* C14 (as claimed): a completed Up subtracts 1 from cursor_row iff
\* cursor_row > 0, a completed Down adds 1 iff cursor_row < number of rows, and
\* in both cases the new cursor_col is min(previous cursor_col, rendered length
\* of the new row): nothing else of the previous column is remembered.
C14_VerticalMoves ==
    [][/\ EventStep("Up") =>
             LET r == IF cursor_row > 0 THEN cursor_row - 1 ELSE cursor_row
             IN  CursorTo(r, Min(cursor_col, RenderedLength(rows, r)))
       /\ EventStep("Down") =>
             LET r == IF cursor_row < Len(rows) THEN cursor_row + 1 ELSE cursor_row
             IN  CursorTo(r, Min(cursor_col, RenderedLength(rows, r)))]_vars

\* C15 (as claimed): on each axis a completed frame leaves the offset unchanged
\* when the cursor is inside [offset, offset + screen dimension), sets it to the
\* cursor when the cursor is before the window and to cursor - dimension + 1
\* when the cursor is at or past the window's end; the offset is never negative.
C15_ScrollSnaps ==
    [][FrameStep =>
          /\ SnapsToEdge(cursor_row, row_offset, screen_rows, row_offset')
          /\ SnapsToEdge(cursor_col, col_offset, screen_cols, col_offset')]_vars

\* C16 (as claimed): right after a frame, the frame has exactly screen_rows
\* lines and every screen row r shows "~" when r + row_offset is not a document
\* row, nothing when that row's rendered length is at most col_offset, and
\* otherwise its rendered characters from col_offset up to (not including)
\* min(rendered length, col_offset + screen_cols): at most screen_cols of them.
C16_FrameContent ==
    pc = "read" =>
        /\ frame.nrows = screen_rows
        /\ \A r \in UnfilledRows :
              /\ FrameLine(r) = ClaimedLine(r)
              /\ r + row_offset < Len(rows) => Len(FrameLine(r)) <= screen_cols

\* C17 (strict render/wait alternation): every event, the first included, is
\* handled with a complete frame of the current state on the terminal; handling
\* one event leads to the repaint (or ends the process: quit, panic), never
\* straight to another event; and from the repaint the only way back to reading
\* is a completed frame.
C17_Alternation ==
    [][/\ HandlesEvent => (FrameUpToDate /\ pc' \in {"refresh", "done"})
       /\ pc = "refresh" => (pc' = "done" \/ (pc' = "read" /\ FrameUpToDate'))]_vars

\* C17 witness: a resize was handled and the frame repainted with the new
\* number of rows, before the next event is read.
C17_Witness ==
    /\ pc = "read"
    /\ last_event = "Resize"
    /\ screen_rows = AsU16(term_rows + 1)
    /\ frame.drawn
    /\ frame.nrows = screen_rows

\* C18 (empty document): once an empty document is loaded, and as long as only
\* keys and frames follow (no resize), the cursor stays at (0,0), the offsets
\* stay at (0,0), and every frame has screen_rows lines that all show the
\* filler "~" (no screen row shows a document row).
C18_EmptyDocument ==
    (pc \in {"refresh", "read"} /\ Len(rows) = 0 /\ NeverResized) =>
        /\ CursorAt(0, 0)
        /\ row_offset = 0
        /\ col_offset = 0
        /\ frame.drawn => (frame.nrows = screen_rows /\ DOMAIN frame.text = {})
        /\ pc = "read" => frame.drawn

\* C18 witness: on an empty document a Down key was handled and the frame
\* repainted, with no resize so far.
C18_Witness ==
    /\ pc = "read"
    /\ Len(rows) = 0
    /\ NeverResized
    /\ last_event = "Down"
    /\ frame.drawn

\* C19 (frame conditions): a handled arrow key changes only the cursor; a frame
\* (scroll and draw) changes only the offsets; a handled resize changes only
\* the screen dimensions; a mouse event or any other key changes no field of
\* the editor state; and after loading no step changes the document rows.
C19_FrameConditions ==
    [][/\ (\E d \in Directions : EventStep(d)) =>
              UNCHANGED <<row_offset, col_offset, screen_rows, screen_cols, rows>>
       /\ FrameStep =>
              UNCHANGED <<cursor_row, cursor_col, screen_rows, screen_cols, rows>>
       /\ EventStep("Resize") =>
              UNCHANGED <<cursor_row, cursor_col, row_offset, col_offset, rows>>
       /\ (EventStep("Mouse") \/ EventStep("OtherKey")) => UNCHANGED editor
       /\ pc \in {"refresh", "read"} => rows' = rows]_vars

\* C19 witness: some other key was handled after the cursor had moved, the
\* view had scrolled and the screen had been resized.
C19_Witness ==
    /\ pc = "refresh"
    /\ last_event = "OtherKey"
    /\ cursor_col > 0
    /\ col_offset > 0
    /\ ~NeverResized
    /\ Len(rows) > 0

\* C20 (no 16-bit overflow): a resize that is read leaves the screen dimensions
\* exactly one above the reported ones (neither a panic nor a wrapped value),
\* and no u16 operation of an arrow key that is read or of a frame pass
\* overflows.
C20_NoOverflow ==
    [][/\ (HandlesEvent /\ last_event' = "Resize") =>
              (screen_cols' = term_cols' + 1 /\ screen_rows' = term_rows' + 1)
       /\ \A d \in Directions :
              (HandlesEvent /\ last_event' = d) =>
                  ~MoveCursor(d, cursor_row, cursor_col, rows).overflow
       /\ pc = "refresh" => ~Refresh(cursor_row, cursor_col, row_offset, col_offset,
                                     screen_rows, screen_cols, rows).overflow]_vars

====
